---- MODULE Spec2Model ----
(***************************************************************************)
(* Model of gnuradio/pirate_radio.py: the pirate_radio top block (its      *)
(* constructor, closeEvent, getters and setters) and main().               *)
(*                                                                         *)
(* Frequencies and sample rates are integers in Hz.  The label text is a   *)
(* string built digit by digit the way str(rf_freq/1e6) prints it.         *)
(***************************************************************************)
EXTENDS Integers, Sequences, FiniteSets, TLC

VARIABLES
    pc,                     \* main()'s position: the next statement to run
    container,              \* gr.top_block.__init__ has run
    blocks,                 \* the block attributes instantiated so far
    connections,            \* the edges given to self.connect
    rf_freq, transmit_status_label, rf_rate, quad_rate, audio_rate,
    sink,                   \* channel 0 of soapy_hackrf_sink_0 as configured
    resampler_0,            \* rational_resampler_xxx_0 (float)
    resampler_1,            \* rational_resampler_xxx_1 (complex)
    nbfm,                   \* analog_nbfm_tx_0
    label_text,             \* text shown by _transmit_status_label_label
    qsettings,              \* the QSettings store; it outlives the process
    window_geometry,        \* the window's geometry
    restored,               \* arguments restoreGeometry was called with
    stderr,                 \* messages printed to sys.stderr
    fg,                     \* flow graph: "idle", "running", "stopping" (stop()
                            \* returned, threads not joined), "stopped"
    flowgraph_started,      \* the threading.Event
    hpc,                    \* closeEvent's position ("none" when not running)
    spc,                    \* stack of sig_handler positions, innermost last
    quit_requested,         \* QApplication.quit() reached a running event loop
    window_closed,          \* the close event was accepted
    signals,                \* SIGINT/SIGTERM deliveries so far
    log,                    \* the calls made so far, in order
    lastCall,               \* the getter or setter call the last step made, if
                            \* it made one: [op, arg, ret]
    tpc, targ, tlabel, tpassed, \* threads calling set_rf_freq concurrently
    queue                   \* setText invocations queued for the GUI thread

vars == <<pc, container, blocks, connections, rf_freq, transmit_status_label,
          rf_rate, quad_rate, audio_rate, sink, resampler_0, resampler_1, nbfm,
          label_text, qsettings, window_geometry, restored, stderr, fg,
          flowgraph_started, hpc, spc, quit_requested, window_closed, signals,
          log, lastCall, tpc, targ, tlabel, tpassed, queue>>

\* Groups used by UNCHANGED.
variables_ == <<rf_freq, transmit_status_label, rf_rate, quad_rate, audio_rate>>
graph == <<container, blocks, connections>>
hardware == <<sink, resampler_0, resampler_1, nbfm>>
gui == <<label_text, qsettings, window_geometry, restored, stderr>>
runtime == <<fg, flowgraph_started, hpc, spc, quit_requested,
             window_closed, signals>>
threads == <<tpc, targ, tlabel, tpassed, queue>>

----------------------------------------------------------------------------
\* Bounds of the model.

MaxSignals == 1

\* Values the environment may pass to the setters (Hz).
Freqs == {88100000, 100000000}
RfRates == {2000000, 1000000}
QuadRates == {480000, 240000}
AudioRates == {48000, 44100}
Labels == {"ON AIR"}
Geometries == {"default", "g1", "g2"}
Threads == {1, 2}

----------------------------------------------------------------------------
\* Program constants.

InitRfFreq == 102200000
InitRfRate == 2000000
InitQuadRate == 480000
InitAudioRate == 48000
VgaGain == 16
VgaMin == 0
VgaMax == 47
Bandwidth == 0
Port == 0
MaxDev == 75000
MHz == 1000000

Organization == "gnuradio/flowgraphs"
Application == "pirate_radio"
GeometryKey == <<Organization, Application, "geometry">>
DefaultGeometry == "default"

SINK == "soapy_hackrf_sink_0"
RS1 == "rational_resampler_xxx_1"
RS0 == "rational_resampler_xxx_0"
WAV == "blocks_wavfile_source_0"
NBFM == "analog_nbfm_tx_0"
AllBlocks == {SINK, RS1, RS0, WAV, NBFM}

----------------------------------------------------------------------------
\* Pure helpers.

Min(a, b) == IF a < b THEN a ELSE b
Max(a, b) == IF a > b THEN a ELSE b

Digit(d) == CASE d = 0 -> "0" [] d = 1 -> "1" [] d = 2 -> "2" [] d = 3 -> "3"
              [] d = 4 -> "4" [] d = 5 -> "5" [] d = 6 -> "6" [] d = 7 -> "7"
              [] d = 8 -> "8" [] d = 9 -> "9"

RECURSIVE IntStr(_)
IntStr(n) == IF n < 10 THEN Digit(n) ELSE IntStr(n \div 10) \o Digit(n % 10)

\* The digits after the point of r / 10^width, r < 10^width, without trailing
\* zeros; at least one digit is printed.
RECURSIVE FracStr(_, _)
FracStr(r, width) ==
    IF width = 1 THEN Digit(r)
    ELSE IF r % 10 = 0 THEN FracStr(r \div 10, width - 1)
    ELSE FracStr(r \div 10, width - 1) \o Digit(r % 10)

\* str(x / 1e6): the shortest decimal that reads back as the quotient, which
\* for a whole number of Hz below 2^31 is the exact quotient.
StrMHz(x) == IntStr(x \div MHz) \o "." \o FracStr(x % MHz, 6)

\* str(rf_freq/1e6) + " MHz"
FormatLabel(x) == StrMHz(x) \o " MHz"

\* self._transmit_status_label_formatter = lambda x: str(x)
transmit_status_label_formatter(x) == x


\* QSettings.value(key): None (falsy, here <<>>) when the key is absent.
value(store, key) == IF key \in DOMAIN store THEN store[key] ELSE <<>>

\* QSettings.setValue(key, v)
setValue(store, key, v) ==
    [k \in DOMAIN store \cup {key} |-> IF k = key THEN v ELSE store[k]]

\* QWidget.saveGeometry(): the geometry g serialised to a byte array.
saveGeometry(g) == <<"QByteArray", g>>

\* QWidget.restoreGeometry(bytes): the geometry a byte array decodes to.
restoreGeometry(bytes) == bytes[2]

\* Python's truth value of the object read back ("if geometry:").
Truthy(x) == x # <<>>

\* One directed connection (src, port) -> (dst, port).
Edge(src, dst) == [src |-> src, sport |-> Port, dst |-> dst, dport |-> Port]

\* A faulty variant of ConnectOrder with the two resamplers exchanged; C3
\* must reject it.
ConnectOrder_swapped ==
    << Edge(NBFM, RS0), Edge(WAV, RS1), Edge(RS1, NBFM), Edge(RS0, SINK) >>

\* The four self.connect calls, in program order.
ConnectOrder ==
    << Edge(NBFM, RS1), Edge(WAV, RS0), Edge(RS0, NBFM), Edge(RS1, SINK) >>

NoSink == [sample_rate |-> 0, bandwidth |-> 0, frequency |-> 0,
           gains |-> [AMP |-> FALSE, VGA |-> 0]]
NoResampler == [interpolation |-> 0, decimation |-> 0]
NoNbfm == [audio_rate |-> 0, quad_rate |-> 0, max_dev |-> 0]
NoCall == [op |-> "none", arg |-> 0, ret |-> 0]

IconMessage == "Qt GUI: Could not set Icon"
GeometryMessage == "Qt GUI: Could not restore geometry"

----------------------------------------------------------------------------
\* A fresh process: nothing constructed yet.  Only the QSettings store is
\* carried over from earlier runs.

Init ==
    /\ pc = "qapp"
    /\ container = FALSE
    /\ blocks = {}
    /\ connections = {}
    /\ rf_freq = 0 /\ transmit_status_label = ""
    /\ rf_rate = 0 /\ quad_rate = 0 /\ audio_rate = 0
    /\ sink = NoSink
    /\ resampler_0 = NoResampler /\ resampler_1 = NoResampler
    /\ nbfm = NoNbfm
    /\ label_text = ""
    /\ qsettings = <<>>
    /\ window_geometry = DefaultGeometry
    /\ restored = <<>>
    /\ stderr = <<>>
    /\ fg = "idle"
    /\ flowgraph_started = FALSE
    /\ hpc = "none" /\ spc = <<>>
    /\ quit_requested = FALSE /\ window_closed = FALSE
    /\ signals = 0
    /\ log = <<>>
    /\ lastCall = NoCall
    /\ tpc = [t \in Threads |-> "idle"]
    /\ targ = [t \in Threads |-> 0]
    /\ tlabel = [t \in Threads |-> ""]
    /\ tpassed = [t \in Threads |-> 0]
    /\ queue = <<>>

----------------------------------------------------------------------------
\* main(), line 176: the QApplication is created.
main_qapp ==
    /\ pc = "qapp"
    /\ pc' = "top_block"
    /\ lastCall' = NoCall
    /\ UNCHANGED <<variables_, graph, hardware, gui, runtime, log, threads>>

\* pirate_radio.__init__, lines 33-36: the top-level flow graph container.
init_top_block ==
    /\ pc = "top_block"
    /\ container' = TRUE
    /\ log' = Append(log, "top_block")
    /\ pc' = "icon"
    /\ lastCall' = NoCall
    /\ UNCHANGED <<blocks, connections, variables_, hardware, gui, runtime,
                   threads>>

\* A faulty variant of init_setWindowIcon without the try/except: a failing
\* lookup leaves main.  C4 must reject it.
init_setWindowIcon_unguarded ==
    /\ pc = "icon"
    /\ \E raises \in BOOLEAN : pc' = IF raises THEN "raised" ELSE "geometry"
    /\ lastCall' = NoCall
    /\ UNCHANGED <<variables_, graph, hardware, gui, runtime, log, threads>>

\* Lines 37-51: the window icon, guarded by try/except BaseException.
init_setWindowIcon ==
    /\ pc = "icon"
    /\ \E raises \in BOOLEAN :
         stderr' = IF raises THEN Append(stderr, IconMessage) ELSE stderr
    /\ pc' = "geometry"
    /\ lastCall' = NoCall
    /\ UNCHANGED <<variables_, graph, hardware, label_text, qsettings,
                   window_geometry, restored, runtime, log, threads>>

\* Lines 53-60: the saved geometry is read back and restored, guarded by
\* try/except BaseException.  Either call may raise.
init_restoreGeometry ==
    /\ pc = "geometry"
    /\ LET geometry == value(qsettings, GeometryKey) IN
       \E outcome \in {"ok", "value_raises", "restore_raises"} :
         /\ outcome = "restore_raises" => Truthy(geometry)
         /\ restored' = IF outcome # "value_raises" /\ Truthy(geometry)
                        THEN Append(restored, geometry) ELSE restored
         /\ window_geometry' = IF outcome = "ok" /\ Truthy(geometry)
                               THEN restoreGeometry(geometry)
                               ELSE window_geometry
         /\ stderr' = IF outcome = "ok" THEN stderr
                      ELSE Append(stderr, GeometryMessage)
    /\ pc' = "variables"
    /\ lastCall' = NoCall
    /\ UNCHANGED <<variables_, graph, hardware, label_text, qsettings,
                   runtime, log, threads>>

\* Lines 61-70: the Event and the five variables.
init_variables ==
    /\ pc = "variables"
    /\ flowgraph_started' = FALSE
    /\ rf_freq' = InitRfFreq
    /\ transmit_status_label' = FormatLabel(InitRfFreq)
    /\ rf_rate' = InitRfRate
    /\ quad_rate' = InitQuadRate
    /\ audio_rate' = InitAudioRate
    /\ pc' = "label"
    /\ lastCall' = NoCall
    /\ UNCHANGED <<graph, hardware, gui, fg, hpc, spc, quit_requested,
                   window_closed, signals, log, threads>>

\* Lines 76-86: the tool bar and the label widget.
init_transmit_status_label_label ==
    /\ pc = "label"
    /\ label_text' = transmit_status_label_formatter(transmit_status_label)
    /\ pc' = "sink"
    /\ lastCall' = NoCall
    /\ UNCHANGED <<variables_, graph, hardware, qsettings, window_geometry,
                   restored, stderr, runtime, log, threads>>

\* Lines 87-94: soapy.sink opens the device.
init_soapy_hackrf_sink_0 ==
    /\ pc = "sink"
    /\ blocks' = blocks \cup {SINK}
    /\ log' = Append(log, SINK)
    /\ pc' = "sink_config"
    /\ lastCall' = NoCall
    /\ UNCHANGED <<container, connections, variables_, hardware, gui, runtime,
                   threads>>

\* Lines 95-99: sample rate, bandwidth, frequency and the two gains.
init_sink_config ==
    /\ pc = "sink_config"
    /\ sink' = [sample_rate |-> rf_rate,
                bandwidth |-> Bandwidth,
                frequency |-> rf_freq,
                gains |-> [AMP |-> FALSE,
                           VGA |-> Min(Max(VgaGain, VgaMin), VgaMax)]]
    /\ pc' = "resampler_1"
    /\ lastCall' = NoCall
    /\ UNCHANGED <<variables_, graph, resampler_0, resampler_1, nbfm, gui,
                   runtime, log, threads>>

\* Lines 100-104.
init_rational_resampler_xxx_1 ==
    /\ pc = "resampler_1"
    /\ resampler_1' = [interpolation |-> rf_rate, decimation |-> quad_rate]
    /\ blocks' = blocks \cup {RS1}
    /\ log' = Append(log, RS1)
    /\ pc' = "resampler_0"
    /\ lastCall' = NoCall
    /\ UNCHANGED <<container, connections, variables_, sink, resampler_0, nbfm,
                   gui, runtime, threads>>

\* Lines 105-109.
init_rational_resampler_xxx_0 ==
    /\ pc = "resampler_0"
    /\ resampler_0' = [interpolation |-> quad_rate, decimation |-> audio_rate]
    /\ blocks' = blocks \cup {RS0}
    /\ log' = Append(log, RS0)
    /\ pc' = "wavfile"
    /\ lastCall' = NoCall
    /\ UNCHANGED <<container, connections, variables_, sink, resampler_1, nbfm,
                   gui, runtime, threads>>

\* Line 110.
init_blocks_wavfile_source_0 ==
    /\ pc = "wavfile"
    /\ blocks' = blocks \cup {WAV}
    /\ log' = Append(log, WAV)
    /\ pc' = "nbfm"
    /\ lastCall' = NoCall
    /\ UNCHANGED <<container, connections, variables_, hardware, gui, runtime,
                   threads>>

\* Lines 111-117.
init_analog_nbfm_tx_0 ==
    /\ pc = "nbfm"
    /\ nbfm' = [audio_rate |-> quad_rate, quad_rate |-> quad_rate,
                max_dev |-> MaxDev]
    /\ blocks' = blocks \cup {NBFM}
    /\ log' = Append(log, NBFM)
    /\ pc' = "connect"
    /\ lastCall' = NoCall
    /\ UNCHANGED <<container, connections, variables_, sink, resampler_0,
                   resampler_1, gui, runtime, threads>>

\* A faulty variant of init_connect that returns after the third connect
\* call; C2 must reject it.
init_connect_three ==
    /\ pc = "connect"
    /\ LET n == Cardinality(connections) + 1 IN
         /\ connections' = connections \cup {ConnectOrder[n]}
         /\ pc' = IF n = Len(ConnectOrder) - 1 THEN "start" ELSE "connect"
    /\ log' = Append(log, "connect")
    /\ lastCall' = NoCall
    /\ UNCHANGED <<container, blocks, variables_, hardware, gui, runtime,
                   threads>>

\* Lines 123-126: the next self.connect call; after the fourth the
\* constructor returns to main.
init_connect ==
    /\ pc = "connect"
    /\ LET n == Cardinality(connections) + 1 IN
         /\ connections' = connections \cup {ConnectOrder[n]}
         /\ pc' = IF n = Len(ConnectOrder) THEN "start" ELSE "connect"
    /\ log' = Append(log, "connect")
    /\ lastCall' = NoCall
    /\ UNCHANGED <<container, blocks, variables_, hardware, gui, runtime,
                   threads>>

\* The constructor's unguarded calls: an exception raised by the sink, a
\* resampler, the WAV source, the modulator or connect is caught nowhere and
\* leaves main.
UnguardedPoints ==
    {"sink", "sink_config", "resampler_1", "resampler_0", "wavfile", "nbfm",
     "connect"}

\* A faulty variant of init_raise in which the constructor catches the
\* exception and returns to main; C5 must reject it.
init_raise_swallowed ==
    /\ pc \in UnguardedPoints
    /\ pc' = "start"
    /\ lastCall' = NoCall
    /\ UNCHANGED <<variables_, graph, hardware, gui, runtime, log, threads>>

init_raise ==
    /\ pc \in UnguardedPoints
    /\ pc' = "raised"
    /\ lastCall' = NoCall
    /\ UNCHANGED <<variables_, graph, hardware, gui, runtime, log, threads>>

----------------------------------------------------------------------------
\* main(), after the constructor.

\* Line 180: tb.start().
main_start ==
    /\ pc = "start"
    /\ fg' = "running"
    /\ log' = Append(log, "start")
    /\ pc' = "set_event"
    /\ lastCall' = NoCall
    /\ UNCHANGED <<variables_, graph, hardware, gui, flowgraph_started, hpc, spc,
                   quit_requested, window_closed, signals, threads>>

\* Line 181: tb.flowgraph_started.set().
main_flowgraph_started_set ==
    /\ pc = "set_event"
    /\ flowgraph_started' = TRUE
    /\ log' = Append(log, "flowgraph_started.set")
    /\ pc' = "show"
    /\ lastCall' = NoCall
    /\ UNCHANGED <<variables_, graph, hardware, gui, fg, hpc, spc,
                   quit_requested, window_closed, signals, threads>>

\* Line 183: tb.show().
main_show ==
    /\ pc = "show"
    /\ log' = Append(log, "show")
    /\ pc' = "signal"
    /\ lastCall' = NoCall
    /\ UNCHANGED <<variables_, graph, hardware, gui, runtime, threads>>

\* Lines 191-192: sig_handler is installed for SIGINT and SIGTERM.
main_signal ==
    /\ pc = "signal"
    /\ pc' = "timer"
    /\ lastCall' = NoCall
    /\ UNCHANGED <<variables_, graph, hardware, gui, runtime, log, threads>>

\* Lines 194-198: the timer is started and qapp.exec_() enters the event loop.
main_exec ==
    /\ pc = "timer"
    /\ spc = <<>>
    /\ log' = Append(log, "exec_")
    /\ pc' = "exec"
    /\ lastCall' = NoCall
    /\ UNCHANGED <<variables_, graph, hardware, gui, runtime, threads>>

\* gr.top_block.stop(): asks a running flow graph to stop.
stop(state) == IF state = "running" THEN "stopping" ELSE state

\* gr.top_block.wait(): returns once the threads of a stopping flow graph
\* have ended.
wait(state) == IF state = "stopping" THEN "stopped" ELSE state

\* The Python code running in the main thread: a signal handler runs between
\* two bytecodes of whatever runs there, closeEvent included.
HandlersInstalled == pc \in {"timer", "exec"}
Top(stack) == stack[Len(stack)]
Pop(stack) == SubSeq(stack, 1, Len(stack) - 1)
SetTop(stack, p) == [stack EXCEPT ![Len(stack)] = p]

\* SIGINT or SIGTERM arrives: sig_handler is entered (line 185).
sig_handler_enter ==
    /\ HandlersInstalled
    /\ signals < MaxSignals
    /\ signals' = signals + 1
    /\ spc' = Append(spc, "stop")
    /\ lastCall' = NoCall
    /\ UNCHANGED <<pc, variables_, graph, hardware, gui, fg, flowgraph_started,
                   hpc, quit_requested, window_closed, log, threads>>

\* A faulty variant of sig_handler_stop after which the handler quits
\* without waiting; C7 must reject it.
sig_handler_stop_nowait ==
    /\ spc # <<>> /\ Top(spc) = "stop"
    /\ fg' = stop(fg)
    /\ log' = Append(log, "stop")
    /\ spc' = SetTop(spc, "quit")
    /\ lastCall' = NoCall
    /\ UNCHANGED <<pc, variables_, graph, hardware, gui, flowgraph_started, hpc,
                   quit_requested, window_closed, signals, threads>>

\* Line 186: tb.stop().
sig_handler_stop ==
    /\ spc # <<>> /\ Top(spc) = "stop"
    /\ fg' = stop(fg)
    /\ log' = Append(log, "stop")
    /\ spc' = SetTop(spc, "wait")
    /\ lastCall' = NoCall
    /\ UNCHANGED <<pc, variables_, graph, hardware, gui, flowgraph_started, hpc,
                   quit_requested, window_closed, signals, threads>>

\* Line 187: tb.wait(); it blocks while the flow graph runs.
sig_handler_wait ==
    /\ spc # <<>> /\ Top(spc) = "wait"
    /\ fg # "running"
    /\ fg' = wait(fg)
    /\ log' = Append(log, "wait")
    /\ spc' = SetTop(spc, "quit")
    /\ lastCall' = NoCall
    /\ UNCHANGED <<pc, variables_, graph, hardware, gui, flowgraph_started, hpc,
                   quit_requested, window_closed, signals, threads>>

\* Line 189: Qt.QApplication.quit(); it does nothing when no event loop runs.
sig_handler_quit ==
    /\ spc # <<>> /\ Top(spc) = "quit"
    /\ quit_requested' = (quit_requested \/ pc = "exec")
    /\ log' = Append(log, "quit")
    /\ spc' = Pop(spc)
    /\ lastCall' = NoCall
    /\ UNCHANGED <<pc, variables_, graph, hardware, gui, fg, flowgraph_started,
                   hpc, window_closed, signals, threads>>

\* The event loop is idle: no Python callback is running in the GUI thread.
LoopIdle == pc = "exec" /\ hpc = "none" /\ spc = <<>>

\* The user resizes or moves the window.
resize ==
    /\ LoopIdle /\ ~window_closed /\ ~quit_requested
    /\ \E g \in Geometries : g # window_geometry /\ window_geometry' = g
    /\ lastCall' = NoCall
    /\ UNCHANGED <<pc, variables_, graph, hardware, label_text, qsettings,
                   restored, stderr, runtime, log, threads>>

\* A faulty variant of closeEvent_setValue that stores the geometry under
\* another key; C6 must reject it.
closeEvent_setValue_otherKey ==
    /\ LoopIdle /\ ~window_closed /\ ~quit_requested
    /\ qsettings' = setValue(qsettings, <<Organization, Application, "state">>,
                             saveGeometry(window_geometry))
    /\ log' = Append(log, "setValue")
    /\ hpc' = "stop"
    /\ lastCall' = NoCall
    /\ UNCHANGED <<pc, variables_, graph, hardware, label_text, window_geometry,
                   restored, stderr, fg, flowgraph_started, spc, quit_requested,
                   window_closed, signals, threads>>

\* closeEvent, lines 129-131: the window is closed; the geometry is saved.
closeEvent_setValue ==
    /\ LoopIdle /\ ~window_closed /\ ~quit_requested
    /\ qsettings' = setValue(qsettings, GeometryKey, saveGeometry(window_geometry))
    /\ log' = Append(log, "setValue")
    /\ hpc' = "stop"
    /\ lastCall' = NoCall
    /\ UNCHANGED <<pc, variables_, graph, hardware, label_text, window_geometry,
                   restored, stderr, fg, flowgraph_started, spc, quit_requested,
                   window_closed, signals, threads>>

\* Line 132: self.stop().
closeEvent_stop ==
    /\ hpc = "stop" /\ spc = <<>>
    /\ fg' = stop(fg)
    /\ log' = Append(log, "stop")
    /\ hpc' = "wait"
    /\ lastCall' = NoCall
    /\ UNCHANGED <<pc, variables_, graph, hardware, gui, flowgraph_started, spc,
                   quit_requested, window_closed, signals, threads>>

\* Line 133: self.wait().
closeEvent_wait ==
    /\ hpc = "wait" /\ spc = <<>>
    /\ fg # "running"
    /\ fg' = wait(fg)
    /\ log' = Append(log, "wait")
    /\ hpc' = "accept"
    /\ lastCall' = NoCall
    /\ UNCHANGED <<pc, variables_, graph, hardware, gui, flowgraph_started, spc,
                   quit_requested, window_closed, signals, threads>>

\* Line 135: event.accept(); the window closes.
closeEvent_accept ==
    /\ hpc = "accept" /\ spc = <<>>
    /\ window_closed' = TRUE
    /\ log' = Append(log, "accept")
    /\ hpc' = "none"
    /\ lastCall' = NoCall
    /\ UNCHANGED <<pc, variables_, graph, hardware, gui, fg, flowgraph_started,
                   spc, quit_requested, signals, threads>>

\* Line 198: qapp.exec_() returns after quit() or once the last window closed.
main_exec_return ==
    /\ LoopIdle
    /\ quit_requested \/ window_closed
    /\ pc' = "exited"
    /\ lastCall' = NoCall
    /\ UNCHANGED <<variables_, graph, hardware, gui, runtime, log, threads>>

\* Lines 200-201: the script is run again; only the QSettings store remains.
relaunch ==
    /\ pc \in {"exited", "raised"}
    /\ pc' = "qapp"
    /\ container' = FALSE /\ blocks' = {} /\ connections' = {}
    /\ rf_freq' = 0 /\ transmit_status_label' = ""
    /\ rf_rate' = 0 /\ quad_rate' = 0 /\ audio_rate' = 0
    /\ sink' = NoSink
    /\ resampler_0' = NoResampler /\ resampler_1' = NoResampler
    /\ nbfm' = NoNbfm
    /\ label_text' = ""
    /\ window_geometry' = DefaultGeometry
    /\ restored' = <<>> /\ stderr' = <<>>
    /\ fg' = "idle" /\ flowgraph_started' = FALSE
    /\ hpc' = "none" /\ spc' = <<>>
    /\ quit_requested' = FALSE /\ window_closed' = FALSE
    /\ signals' = 0
    /\ log' = <<>>
    /\ lastCall' = NoCall
    /\ UNCHANGED <<qsettings, threads>>

----------------------------------------------------------------------------
\* Getters and setters, called from a callback of the GUI thread.

\* A call, its argument (0 for none) and what it returned (0 for None).
Call(op, arg, r) == [op |-> op, arg |-> arg, ret |-> r]

\* Qt.QMetaObject.invokeMethod(label, "setText", text) from the thread the
\* label lives in: the slot runs at once.
setText(text) == label_text' = text

\* Lines 137-138.
get_rf_freq ==
    /\ LoopIdle
    /\ lastCall' = Call("get_rf_freq", 0, rf_freq)
    /\ UNCHANGED <<pc, variables_, graph, hardware, gui, runtime, log, threads>>

\* Lines 148-150.
set_transmit_status_label(s) ==
    /\ LoopIdle
    /\ transmit_status_label' = s
    /\ setText(transmit_status_label_formatter(transmit_status_label'))
    /\ lastCall' = Call("set_transmit_status_label", s, 0)
    /\ UNCHANGED <<pc, rf_freq, rf_rate, quad_rate, audio_rate, graph, hardware,
                   qsettings, window_geometry, restored, stderr, runtime, log,
                   threads>>

\* A faulty variant of set_rf_freq that forwards the frequency to the sink
\* before storing it; C1 must reject it.
set_rf_freq_stale(f) ==
    /\ LoopIdle
    /\ sink' = [sink EXCEPT !.frequency = rf_freq]
    /\ rf_freq' = f
    /\ transmit_status_label' = FormatLabel(rf_freq')
    /\ setText(transmit_status_label_formatter(transmit_status_label'))
    /\ lastCall' = Call("set_rf_freq", f, 0)
    /\ UNCHANGED <<pc, rf_rate, quad_rate, audio_rate, graph, resampler_0,
                   resampler_1, nbfm, qsettings, window_geometry, restored,
                   stderr, runtime, log, threads>>

\* Lines 140-143.
set_rf_freq(f) ==
    /\ LoopIdle
    /\ rf_freq' = f
    /\ transmit_status_label' = FormatLabel(rf_freq')
    /\ setText(transmit_status_label_formatter(transmit_status_label'))
    /\ sink' = [sink EXCEPT !.frequency = rf_freq']
    /\ lastCall' = Call("set_rf_freq", f, 0)
    /\ UNCHANGED <<pc, rf_rate, quad_rate, audio_rate, graph, resampler_0,
                   resampler_1, nbfm, qsettings, window_geometry, restored,
                   stderr, runtime, log, threads>>

\* Lines 145-146.
get_transmit_status_label ==
    /\ LoopIdle
    /\ lastCall' = Call("get_transmit_status_label", 0, transmit_status_label)
    /\ UNCHANGED <<pc, variables_, graph, hardware, gui, runtime, log, threads>>

\* Lines 152-153.
get_rf_rate ==
    /\ LoopIdle
    /\ lastCall' = Call("get_rf_rate", 0, rf_rate)
    /\ UNCHANGED <<pc, variables_, graph, hardware, gui, runtime, log, threads>>

\* Lines 155-157.
set_rf_rate(r) ==
    /\ LoopIdle
    /\ rf_rate' = r
    /\ sink' = [sink EXCEPT !.sample_rate = rf_rate']
    /\ lastCall' = Call("set_rf_rate", r, 0)
    /\ UNCHANGED <<pc, rf_freq, transmit_status_label, quad_rate, audio_rate,
                   graph, resampler_0, resampler_1, nbfm, gui, runtime, log,
                   threads>>

\* Lines 159-160.
get_quad_rate ==
    /\ LoopIdle
    /\ lastCall' = Call("get_quad_rate", 0, quad_rate)
    /\ UNCHANGED <<pc, variables_, graph, hardware, gui, runtime, log, threads>>

\* Lines 162-163.
set_quad_rate(r) ==
    /\ LoopIdle
    /\ quad_rate' = r
    /\ lastCall' = Call("set_quad_rate", r, 0)
    /\ UNCHANGED <<pc, rf_freq, transmit_status_label, rf_rate, audio_rate,
                   graph, hardware, gui, runtime, log, threads>>

\* Lines 165-166.
get_audio_rate ==
    /\ LoopIdle
    /\ lastCall' = Call("get_audio_rate", 0, audio_rate)
    /\ UNCHANGED <<pc, variables_, graph, hardware, gui, runtime, log, threads>>

\* A faulty variant of set_audio_rate that stores into quad_rate; C9 must
\* reject it.
set_audio_rate_copied(r) ==
    /\ LoopIdle
    /\ quad_rate' = r
    /\ lastCall' = Call("set_audio_rate", r, 0)
    /\ UNCHANGED <<pc, rf_freq, transmit_status_label, rf_rate, audio_rate,
                   graph, hardware, gui, runtime, log, threads>>

\* Lines 168-169.
set_audio_rate(r) ==
    /\ LoopIdle
    /\ audio_rate' = r
    /\ lastCall' = Call("set_audio_rate", r, 0)
    /\ UNCHANGED <<pc, rf_freq, transmit_status_label, rf_rate, quad_rate,
                   graph, hardware, gui, runtime, log, threads>>

----------------------------------------------------------------------------
\* One run of main after another.

\* pirate_radio.__init__ and main up to the event loop.
Startup ==
    \/ main_qapp
    \/ init_top_block
    \/ init_setWindowIcon
    \/ init_restoreGeometry
    \/ init_variables
    \/ init_transmit_status_label_label
    \/ init_soapy_hackrf_sink_0
    \/ init_sink_config
    \/ init_rational_resampler_xxx_1
    \/ init_rational_resampler_xxx_0
    \/ init_blocks_wavfile_source_0
    \/ init_analog_nbfm_tx_0
    \/ init_connect
    \/ init_raise
    \/ main_start
    \/ main_flowgraph_started_set
    \/ main_show
    \/ main_signal
    \/ main_exec

\* The ways out of the event loop: sig_handler and closeEvent.
Shutdown ==
    \/ sig_handler_enter
    \/ sig_handler_stop
    \/ sig_handler_wait
    \/ sig_handler_quit
    \/ closeEvent_setValue
    \/ closeEvent_stop
    \/ closeEvent_wait
    \/ closeEvent_accept
    \/ main_exec_return

\* The script as it is run: nothing in it calls the getters and setters.
Next ==
    \/ Startup
    \/ Shutdown
    \/ resize
    \/ relaunch

Spec == Init /\ [][Next]_vars

\* One run of main during which callbacks of the GUI thread call the getters
\* and setters.
NextApi ==
    \/ Startup
    \/ Shutdown
    \/ get_rf_freq
    \/ get_transmit_status_label
    \/ get_rf_rate
    \/ get_quad_rate
    \/ get_audio_rate
    \/ \E f \in Freqs : set_rf_freq(f)
    \/ \E s \in Labels : set_transmit_status_label(s)
    \/ \E r \in RfRates : set_rf_rate(r)
    \/ \E r \in QuadRates : set_quad_rate(r)
    \/ \E r \in AudioRates : set_audio_rate(r)

SpecApi == Init /\ [][NextApi]_vars

----------------------------------------------------------------------------
\* Two threads other than the GUI thread call set_rf_freq while the event
\* loop runs.  Each statement of set_rf_freq and set_transmit_status_label
\* that reads or writes the object is one step; invokeMethod from a thread the
\* label does not live in queues setText for the GUI thread.

ThreadFreqs == {88100000, 100000000}

\* What the calls of a first run of main that meets no failure have logged
\* once the event loop is entered.
StartupLog ==
    <<"top_block", SINK, RS1, RS0, WAV, NBFM, "connect", "connect", "connect",
      "connect", "start", "flowgraph_started.set", "show", "exec_">>

\* The state in which a first run of main that meets no failure enters the
\* event loop.
EventLoopEntered ==
    /\ pc = "exec"
    /\ container = TRUE
    /\ blocks = AllBlocks
    /\ connections = {ConnectOrder[i] : i \in 1..Len(ConnectOrder)}
    /\ rf_freq = InitRfFreq
    /\ transmit_status_label = FormatLabel(InitRfFreq)
    /\ rf_rate = InitRfRate /\ quad_rate = InitQuadRate
    /\ audio_rate = InitAudioRate
    /\ sink = [sample_rate |-> InitRfRate, bandwidth |-> Bandwidth,
               frequency |-> InitRfFreq,
               gains |-> [AMP |-> FALSE, VGA |-> VgaGain]]
    /\ resampler_0 = [interpolation |-> InitQuadRate,
                      decimation |-> InitAudioRate]
    /\ resampler_1 = [interpolation |-> InitRfRate, decimation |-> InitQuadRate]
    /\ nbfm = [audio_rate |-> InitQuadRate, quad_rate |-> InitQuadRate,
               max_dev |-> MaxDev]
    /\ label_text = FormatLabel(InitRfFreq)
    /\ qsettings = <<>>
    /\ window_geometry = DefaultGeometry
    /\ restored = <<>>
    /\ stderr = <<>>
    /\ fg = "running"
    /\ flowgraph_started = TRUE
    /\ hpc = "none" /\ spc = <<>>
    /\ quit_requested = FALSE /\ window_closed = FALSE
    /\ signals = 0
    /\ log = StartupLog
    /\ lastCall = NoCall

InitConc ==
    /\ EventLoopEntered
    /\ tpc = [t \in Threads |-> "L141"]
    /\ targ \in {a \in [Threads -> ThreadFreqs] : a[1] # a[2]}
    /\ tlabel = [t \in Threads |-> ""]
    /\ tpassed = [t \in Threads |-> 0]
    /\ queue = <<>>

shared == <<pc, graph, rf_rate, quad_rate, audio_rate, resampler_0, resampler_1,
            nbfm, qsettings, window_geometry, restored, stderr, fg,
            flowgraph_started, hpc, spc, quit_requested, window_closed,
            signals, log, lastCall, targ>>

\* Line 141: self.rf_freq = rf_freq.
thread_L141(t) ==
    /\ tpc[t] = "L141"
    /\ rf_freq' = targ[t]
    /\ tpc' = [tpc EXCEPT ![t] = "L142"]
    /\ UNCHANGED <<shared, transmit_status_label, sink, label_text, tlabel,
                   tpassed, queue>>

\* Line 142: the argument str(self.rf_freq/1e6) + " MHz" is evaluated.
thread_L142(t) ==
    /\ tpc[t] = "L142"
    /\ tlabel' = [tlabel EXCEPT ![t] = FormatLabel(rf_freq)]
    /\ tpc' = [tpc EXCEPT ![t] = "L149"]
    /\ UNCHANGED <<shared, rf_freq, transmit_status_label, sink, label_text,
                   tpassed, queue>>

\* Line 149: self.transmit_status_label = transmit_status_label.
thread_L149(t) ==
    /\ tpc[t] = "L149"
    /\ transmit_status_label' = tlabel[t]
    /\ tpc' = [tpc EXCEPT ![t] = "L150"]
    /\ UNCHANGED <<shared, rf_freq, sink, label_text, tlabel, tpassed, queue>>

\* Line 150: self.transmit_status_label is read again, formatted, and setText
\* is queued with it.
thread_L150(t) ==
    /\ tpc[t] = "L150"
    /\ queue' = Append(queue,
                       transmit_status_label_formatter(transmit_status_label))
    /\ tpc' = [tpc EXCEPT ![t] = "L143"]
    /\ UNCHANGED <<shared, rf_freq, transmit_status_label, sink, label_text,
                   tlabel, tpassed>>

\* Line 143: self.soapy_hackrf_sink_0.set_frequency(0, self.rf_freq).
thread_L143(t) ==
    /\ tpc[t] = "L143"
    /\ sink' = [sink EXCEPT !.frequency = rf_freq]
    /\ tpassed' = [tpassed EXCEPT ![t] = rf_freq]
    /\ tpc' = [tpc EXCEPT ![t] = "done"]
    /\ UNCHANGED <<shared, rf_freq, transmit_status_label, label_text, tlabel,
                   queue>>

\* The GUI thread runs the oldest queued setText.
deliver_setText ==
    /\ queue # <<>>
    /\ label_text' = Head(queue)
    /\ queue' = Tail(queue)
    /\ UNCHANGED <<shared, rf_freq, transmit_status_label, sink, tpc, tlabel,
                   tpassed>>

NextConc ==
    \/ \E t \in Threads : thread_L141(t)
    \/ \E t \in Threads : thread_L142(t)
    \/ \E t \in Threads : thread_L149(t)
    \/ \E t \in Threads : thread_L150(t)
    \/ \E t \in Threads : thread_L143(t)
    \/ deliver_setText

SpecConc == InitConc /\ [][NextConc]_vars

----------------------------------------------------------------------------
\* Properties.

\* The constructor has returned to main.
Constructed ==
    pc \in {"start", "set_event", "show", "signal", "timer", "exec", "exited"}

\* The label and the sink agree with the stored frequency.
FrequencyFidelity ==
    /\ transmit_status_label = StrMHz(rf_freq) \o " MHz"
    /\ sink.frequency = rf_freq

\* C1: Configuration fidelity of set_rf_freq.  When the constructor returns,
\* rf_freq is 102.2e6, the label is "102.2 MHz" and the sink was given 102.2e6.
\* A call set_rf_freq(F) leaves rf_freq = F, the label equal to the string of
\* F/1e6 followed by " MHz", and F as the sink's frequency.  Every other step
\* except a direct set_transmit_status_label keeps rf_freq, the label and the
\* sink's frequency in that agreement, so it holds after any series of
\* set_rf_freq calls.
C1_ConfigurationFidelity ==
    [][ /\ (pc # "start" /\ pc' = "start") =>
             /\ rf_freq' = 102200000
             /\ transmit_status_label' = "102.2 MHz"
             /\ FrequencyFidelity'
        /\ lastCall'.op = "set_rf_freq" =>
             /\ rf_freq' = lastCall'.arg
             /\ FrequencyFidelity'
        /\ ( /\ Constructed /\ FrequencyFidelity /\ pc' # "qapp"
             /\ lastCall'.op \notin {"set_rf_freq", "set_transmit_status_label"} )
           => (rf_freq' = rf_freq /\ FrequencyFidelity')
      ]_vars

\* C1 witness: set_rf_freq(100e6) has just returned.
C1_Witness ==
    /\ lastCall = [op |-> "set_rf_freq", arg |-> 100000000, ret |-> 0]
    /\ rf_freq = 100000000
    /\ transmit_status_label = "100.0 MHz"
    /\ sink.frequency = 100000000

\* The start-up phase an entry of the log belongs to (0: none).
Phase(e) ==
    CASE e = "top_block" -> 1
      [] e \in AllBlocks -> 2
      [] e = "connect" -> 3
      [] e = "start" -> 4
      [] e = "flowgraph_started.set" -> 5
      [] e = "exec_" -> 6
      [] OTHER -> 0

\* The entries of phase q among the first n entries of the log.
Entries(q, n) == {j \in 1..n : Phase(log[j]) = q}

\* The number of events phase q consists of.
PhaseSize(q) ==
    CASE q = 2 -> Cardinality(AllBlocks)
      [] q = 3 -> 4
      [] OTHER -> 1

\* C2: Start-up ordering.  The container is constructed, then the five blocks
\* are instantiated, then the four connections are declared, then the flow
\* graph is started, then flowgraph_started is set, then the event loop is
\* entered: each of these events happens only after every event of every
\* earlier phase has happened, and none happens twice.  The flow graph is not
\* running before the four connections exist, and flowgraph_started is not
\* set before start has returned.
C2_StartupOrder ==
    /\ \A i \in DOMAIN log : \A q \in 1..(Phase(log[i]) - 1) :
          /\ Cardinality(Entries(q, i - 1)) = PhaseSize(q)
          /\ q = 2 => {log[j] : j \in Entries(2, i - 1)} = AllBlocks
    /\ \A q \in 1..6 : Cardinality(Entries(q, Len(log))) <= PhaseSize(q)
    /\ container = (Entries(1, Len(log)) # {})
    /\ blocks = {log[j] : j \in Entries(2, Len(log))}
    /\ Cardinality(connections) = Cardinality(Entries(3, Len(log)))
    /\ fg # "idle" <=> Entries(4, Len(log)) # {}
    /\ fg # "idle" => Cardinality(connections) = 4
    /\ flowgraph_started <=> Entries(5, Len(log)) # {}
    /\ flowgraph_started => fg # "idle"
    /\ pc \in {"exec", "exited"} <=> Entries(6, Len(log)) # {}

\* C2 witness: the event loop is entered with the flow graph running.
C2_Witness ==
    /\ pc = "exec" /\ log = StartupLog
    /\ fg = "running" /\ flowgraph_started
    /\ blocks = AllBlocks /\ Cardinality(connections) = 4

\* The chain the flow graph is meant to be, from the source to the sink.
ExpectedChain == <<WAV, RS0, NBFM, RS1, SINK>>

ChainEdges ==
    {[src |-> ExpectedChain[i], sport |-> 0, dst |-> ExpectedChain[i + 1],
      dport |-> 0] : i \in 1..(Len(ExpectedChain) - 1)}

Producers(b) == {e \in connections : e.dst = b /\ e.dport = 0}
Consumers(b) == {e \in connections : e.src = b /\ e.sport = 0}

\* The blocks reached from the blocks S along at most n connections.
RECURSIVE Downstream(_, _)
Downstream(S, n) ==
    IF n = 0 THEN {}
    ELSE LET next == {e.dst : e \in {c \in connections : c.src \in S}}
         IN next \cup Downstream(next, n - 1)

\* C3: Wiring topology.  Once the constructor has returned, and whatever
\* getters, setters and closeEvent do afterwards, the flow graph holds exactly
\* the four connections of the chain WAV source -> float resampler -> NBFM
\* modulator -> complex resampler -> SDR sink, each from output port 0 to
\* input port 0; every input port 0 has one producer except the source's
\* (none), every output port 0 has one consumer except the sink's (none), and
\* no block reaches itself.
C3_WiringTopology ==
    Constructed =>
      /\ connections = ChainEdges
      /\ Cardinality(connections) = 4
      /\ \A e \in connections : e.sport = 0 /\ e.dport = 0
      /\ \A b \in AllBlocks :
           /\ Cardinality(Producers(b)) = IF b = WAV THEN 0 ELSE 1
           /\ Cardinality(Consumers(b)) = IF b = SINK THEN 0 ELSE 1
           /\ b \notin Downstream({b}, Cardinality(AllBlocks))

\* C3 witness: setters have run and closeEvent has accepted the close.
C3_Witness ==
    /\ window_closed
    /\ rf_rate = 1000000 /\ quad_rate = 240000 /\ rf_freq = 88100000
    /\ connections = ChainEdges

\* The state the constructor leaves when it returns.
ConstructionEndState ==
    /\ blocks = AllBlocks
    /\ connections = ChainEdges
    /\ rf_freq = 102200000 /\ transmit_status_label = "102.2 MHz"
    /\ rf_rate = 2000000 /\ quad_rate = 480000 /\ audio_rate = 48000
    /\ label_text = "102.2 MHz"
    /\ sink = [sample_rate |-> 2000000, bandwidth |-> 0, frequency |-> 102200000,
               gains |-> [AMP |-> FALSE, VGA |-> 16]]

\* C4: Guarded failures do not abort.  Whether or not the icon lookup raises,
\* the constructor goes on to the geometry step, having printed at most its
\* message to stderr; whether or not reading or restoring the geometry raises,
\* it goes on to the variables, having printed at most its message; and the
\* constructor returns in the same end state whichever of the two messages
\* were printed.
C4_GuardedFailures ==
    /\ [](pc = "start" =>
            /\ ConstructionEndState
            /\ stderr \in {<<>>, <<IconMessage>>, <<GeometryMessage>>,
                           <<IconMessage, GeometryMessage>>})
    /\ [][ /\ pc = "icon" =>
                /\ pc' = "geometry"
                /\ stderr' \in {stderr, Append(stderr, IconMessage)}
           /\ pc = "geometry" =>
                /\ pc' = "variables"
                /\ stderr' \in {stderr, Append(stderr, GeometryMessage)}
         ]_vars

\* C4 witness: both guarded steps failed and the constructor returned.
C4_Witness ==
    /\ pc = "start"
    /\ stderr = <<IconMessage, GeometryMessage>>
    /\ ConstructionEndState

\* C5: Unguarded failures propagate.  A step of the constructor at the sink,
\* its configuration, a resampler, the WAV source, the modulator or a connect
\* call that does not do its work leaves main with the exception; from then on
\* construction is incomplete, the flow graph is not started,
\* flowgraph_started is not set and the event loop is not entered.
C5_UnguardedFailures ==
    /\ [](pc = "raised" =>
            /\ ~(blocks = AllBlocks /\ Cardinality(connections) = 4)
            /\ fg = "idle"
            /\ ~flowgraph_started
            /\ \A i \in DOMAIN log :
                  log[i] \notin {"start", "flowgraph_started.set", "exec_"})
    /\ [][ /\ ( /\ pc \in {"sink", "sink_config", "resampler_1", "resampler_0",
                           "wavfile", "nbfm", "connect"}
                /\ blocks' = blocks /\ connections' = connections
                /\ sink' = sink )
              => pc' = "raised"
           /\ pc = "raised" => pc' \in {"raised", "qapp"}
         ]_vars

\* C5 witness: opening the WAV file failed.
C5_Witness ==
    /\ pc = "raised"
    /\ blocks = {SINK, RS1, RS0}
    /\ connections = {}
    /\ fg = "idle" /\ ~flowgraph_started

\* The constructor is past the geometry step and the window has not been
\* shown to the user yet.
PastGeometry ==
    pc \in {"variables", "label", "sink", "sink_config", "resampler_1",
            "resampler_0", "wavfile", "nbfm", "connect", "start", "set_event",
            "show", "signal", "timer", "raised"}

\* closeEvent has stored the geometry and the window has not changed since.
GeometrySaved == hpc \in {"stop", "wait", "accept"} \/ window_closed

StoredGeometry == value(qsettings, <<"gnuradio/flowgraphs", "pirate_radio", "geometry">>)

\* C6 as stated: closeEvent stores the window's geometry under the key, and
\* the next construction restores exactly the stored geometry whenever a
\* non-empty value is stored, and otherwise does not call restoreGeometry and
\* keeps the default geometry.
C6_GeometryRoundTrip_AsStated ==
    /\ GeometrySaved => StoredGeometry = saveGeometry(window_geometry)
    /\ PastGeometry =>
         IF Truthy(StoredGeometry)
         THEN \E g \in Geometries :
                 StoredGeometry = saveGeometry(g) /\ window_geometry = g
         ELSE restored = <<>> /\ window_geometry = "default"

\* C6 amended: closeEvent stores the window's geometry under the key; the
\* next construction restores exactly the stored geometry when a non-empty
\* value is stored and neither reading nor restoring it raises; when nothing
\* is stored restoreGeometry is not called; and when nothing is stored or
\* either call raises the window keeps the default geometry.
C6_GeometryRoundTrip ==
    /\ GeometrySaved => StoredGeometry = saveGeometry(window_geometry)
    /\ PastGeometry =>
         IF Truthy(StoredGeometry) /\ GeometryMessage \notin {stderr[i] : i \in DOMAIN stderr}
         THEN \E g \in Geometries :
                 /\ StoredGeometry = saveGeometry(g)
                 /\ restored = <<StoredGeometry>>
                 /\ window_geometry = g
         ELSE /\ window_geometry = "default"
              /\ ~Truthy(StoredGeometry) => restored = <<>>

\* C6 witness: a run restored the geometry "g1" that an earlier run stored.
C6_Witness ==
    /\ pc = "variables"
    /\ StoredGeometry = saveGeometry("g1")
    /\ restored = <<saveGeometry("g1")>>
    /\ window_geometry = "g1"
    /\ stderr = <<>>

\* Entry i of the log is preceded by the entries of seq, in that order.
RECURSIVE PrecededBy(_, _)
PrecededBy(i, seq) ==
    IF seq = <<>> THEN TRUE
    ELSE \E j \in 1..(i - 1) :
            /\ log[j] = seq[Len(seq)]
            /\ PrecededBy(j, SubSeq(seq, 1, Len(seq) - 1))

\* C7: Shutdown ordering.  QApplication.quit is called only after stop and
\* then wait were called; the close event is accepted only after the geometry
\* was saved, then stop, then wait were called; stop is called only after
\* start; and once quit was requested, the window was closed or the event
\* loop has returned, the flow graph is stopped and its threads have ended.
C7_ShutdownOrder ==
    /\ \A i \in DOMAIN log :
          /\ log[i] = "quit" => PrecededBy(i, <<"start", "stop", "wait">>)
          /\ log[i] = "accept" =>
                PrecededBy(i, <<"start", "setValue", "stop", "wait">>)
          /\ log[i] = "stop" => PrecededBy(i, <<"start">>)
    /\ (quit_requested \/ window_closed \/ pc = "exited") => fg = "stopped"
    /\ pc = "exited" =>
          \E i \in DOMAIN log : log[i] \in {"quit", "accept"}

\* C7 witness: a signal arrived while closeEvent ran, and the loop returned.
C7_Witness ==
    /\ pc = "exited"
    /\ fg = "stopped"
    /\ \E i, j \in DOMAIN log : log[i] = "quit" /\ log[j] = "accept"

\* Exact arithmetic on fractions <<numerator, denominator>>.
RECURSIVE GCD(_, _)
GCD(a, b) == IF b = 0 THEN a ELSE GCD(b, a % b)

Fraction(n, d) == <<n \div GCD(n, d), d \div GCD(n, d)>>

Times(x, y) ==
    LET g == GCD(x[1], y[2])
        h == GCD(y[1], x[2])
    IN <<(x[1] \div g) * (y[1] \div h), (x[2] \div h) * (y[2] \div g)>>

\* The output rate over the input rate of a rational resampler.
Ratio(r) == Fraction(r.interpolation, r.decimation)

\* The sample rate the chain delivers to the sink when the WAV source is read
\* at audio_rate.
DeliveredRate == Times(Times(<<audio_rate, 1>>, Ratio(resampler_0)),
                       Ratio(resampler_1))

\* C8: Sample-rate chain consistency.  Once the constructor has returned, and
\* after any calls of set_rf_rate, set_quad_rate and set_audio_rate, the rate
\* the resamplers deliver to the sink equals the sink's sample rate and the
\* stored rf_rate, the first resampler's ratio is quad_rate / audio_rate and
\* the second's is rf_rate / quad_rate.
C8_SampleRateChain ==
    Constructed =>
      /\ DeliveredRate = <<sink.sample_rate, 1>>
      /\ sink.sample_rate = rf_rate
      /\ Ratio(resampler_0) = Fraction(quad_rate, audio_rate)
      /\ Ratio(resampler_1) = Fraction(rf_rate, quad_rate)

\* What no getter and no setter touches.
Untouched ==
    <<pc, container, blocks, connections, resampler_0, resampler_1, nbfm,
      qsettings, window_geometry, restored, stderr, fg, flowgraph_started, hpc,
      spc, quit_requested, window_closed, signals, log, tpc, targ, tlabel,
      tpassed, queue>>

\* C9: Frame effect of the getters and setters.  A getter returns the stored
\* value and changes nothing.  set_quad_rate(v) and set_audio_rate(v) store v
\* and change nothing else; set_rf_rate(v) stores v and gives it to the sink
\* as its sample rate, and changes nothing else;
\* set_transmit_status_label(s) stores s and shows it in the label widget, and
\* changes nothing else; set_rf_freq(F) stores F, changes the stored label
\* and the widget's text, and gives F to the sink as its frequency, and
\* changes nothing else.  A getter called right after its setter returns the
\* setter's argument.
C9_FrameEffect ==
    [][ LET op == lastCall'.op
            arg == lastCall'.arg
            r == lastCall'.ret
        IN
        /\ op # "none" => UNCHANGED Untouched
        /\ op = "get_rf_freq" =>
             r = rf_freq /\ UNCHANGED <<variables_, sink, label_text>>
        /\ op = "get_transmit_status_label" =>
             r = transmit_status_label
             /\ UNCHANGED <<variables_, sink, label_text>>
        /\ op = "get_rf_rate" =>
             r = rf_rate /\ UNCHANGED <<variables_, sink, label_text>>
        /\ op = "get_quad_rate" =>
             r = quad_rate /\ UNCHANGED <<variables_, sink, label_text>>
        /\ op = "get_audio_rate" =>
             r = audio_rate /\ UNCHANGED <<variables_, sink, label_text>>
        /\ op = "set_quad_rate" =>
             /\ quad_rate' = arg
             /\ UNCHANGED <<rf_freq, transmit_status_label, rf_rate,
                            audio_rate, sink, label_text>>
        /\ op = "set_audio_rate" =>
             /\ audio_rate' = arg
             /\ UNCHANGED <<rf_freq, transmit_status_label, rf_rate, quad_rate,
                            sink, label_text>>
        /\ op = "set_rf_rate" =>
             /\ rf_rate' = arg
             /\ sink' = [sink EXCEPT !.sample_rate = arg]
             /\ UNCHANGED <<rf_freq, transmit_status_label, quad_rate,
                            audio_rate, label_text>>
        /\ op = "set_transmit_status_label" =>
             /\ transmit_status_label' = arg
             /\ label_text' = arg
             /\ UNCHANGED <<rf_freq, rf_rate, quad_rate, audio_rate, sink>>
        /\ op = "set_rf_freq" =>
             /\ rf_freq' = arg
             /\ sink' = [sink EXCEPT !.frequency = arg]
             /\ UNCHANGED <<rf_rate, quad_rate, audio_rate>>
        /\ (lastCall.op = "set_rf_freq" /\ op = "get_rf_freq")
             => r = lastCall.arg
        /\ ( /\ lastCall.op = "set_transmit_status_label"
             /\ op = "get_transmit_status_label" ) => r = lastCall.arg
        /\ (lastCall.op = "set_rf_rate" /\ op = "get_rf_rate")
             => r = lastCall.arg
        /\ (lastCall.op = "set_quad_rate" /\ op = "get_quad_rate")
             => r = lastCall.arg
        /\ (lastCall.op = "set_audio_rate" /\ op = "get_audio_rate")
             => r = lastCall.arg
      ]_vars

\* C9 witness: get_audio_rate has returned 44100 after set_audio_rate(44100),
\* with set_quad_rate(240000) and set_rf_rate(1000000) called before.
C9_Witness ==
    /\ lastCall = [op |-> "get_audio_rate", arg |-> 0, ret |-> 44100]
    /\ audio_rate = 44100 /\ quad_rate = 240000 /\ rf_rate = 1000000
    /\ sink.sample_rate = 1000000
    /\ resampler_0 = [interpolation |-> 480000, decimation |-> 48000]

AllDone == (\A t \in Threads : tpc[t] = "done") /\ queue = <<>>

\* C10: Agreement under concurrent frequency changes.  Once both calls of
\* set_rf_freq have returned and every queued setText has run, rf_freq, the
\* stored label, the label widget's text and the sink's frequency all belong
\* to one and the same F of the two requested, and each call gave the sink
\* the F it was called with.
C10_ConcurrentAgreement ==
    AllDone =>
      /\ \E t \in Threads :
            /\ rf_freq = targ[t]
            /\ transmit_status_label = FormatLabel(targ[t])
            /\ label_text = FormatLabel(targ[t])
            /\ sink.frequency = targ[t]
      /\ \A t \in Threads : tpassed[t] = targ[t]
====
